---- MODULE Spec2Model ----
(***************************************************************************)
(* Model of doc_organizer.py: the heading-driven section tree builder and  *)
(* flattener (HTMLParser), the paragraph chunker and chunk reassembler     *)
(* (GPTProcessor._process_large_section), and the classification dispatch  *)
(* (GPTProcessor.process_section, DocumentationOrganizer.process_file).    *)
(*                                                                         *)
(* Strings are sequences of atoms.  The atom NL is the newline character;  *)
(* every other atom stands for a run of text without newlines or blanks.   *)
(***************************************************************************)
EXTENDS Integers, Sequences, FiniteSets, TLC

VARIABLES
    elements,          \* main_content.find_all(): the node stream
    pos,               \* number of nodes the for-loop has fetched
    secs,              \* heap of DocumentSection objects, secs[1] is root
    current_sections,  \* dict heading level -> section (Missing, None, id)
    tpc,               \* position of the parser: build, built, flat, raised
    flat_list,         \* result of flatten_sections
    content,           \* section["content"] handed to the chunker
    context_window,    \* model_config['context_window']
    chunk_groups,      \* the paragraphs of each chunk (each current_chunk)
    chunked_paragraphs,\* the chunk texts
    cpc,               \* position of the chunker: start, done
    sections,          \* process_file: the flat sections to classify
    sec_idx,           \* process_file: number of sections dispatched
    processed_sections,\* process_file: the records collected
    stack,             \* active _process_large_section calls, outermost first
    dpc,               \* position of process_file: file, done, escaped
    returns,           \* history: what process_section returned per section
    last_return,       \* history: the last return of a chunked section
    recursion_errors   \* history: a RecursionError has been raised

tvars == <<elements, pos, secs, current_sections, tpc, flat_list>>
cvars == <<content, context_window, chunk_groups, chunked_paragraphs, cpc>>
dvars == <<sections, sec_idx, processed_sections, stack, dpc, returns,
           last_return, recursion_errors>>
vars == <<tvars, cvars, dvars>>

(***************************************************************************)
(* Bounds of the model.  RecursionLimit is the interpreter's recursion     *)
(* limit, counted in nested activations of _process_large_section.         *)
(***************************************************************************)
MaxLevel == 4
MaxStreamLen == 4
MaxContentLen == 4
MaxWindow == 7
MaxSections == 2
MaxParas == 3
RecursionLimit == 3
MaxEdgeLen == 3

(***************************************************************************)
(* String helpers.                                                         *)
(***************************************************************************)
NL == "\n"
\* the code fence of a Markdown block (three backquotes)
Fence == "FENCE"

RECURSIVE Join(_, _)
\* sep.join(parts)
Join(parts, sep) ==
    IF Len(parts) = 0 THEN <<>>
    ELSE IF Len(parts) = 1 THEN parts[1]
    ELSE parts[1] \o sep \o Join(Tail(parts), sep)

\* str.strip() on a string of atoms: only NL atoms are whitespace here
RECURSIVE LStrip(_)
LStrip(s) == IF Len(s) > 0 /\ s[1] = NL THEN LStrip(Tail(s)) ELSE s

RECURSIVE RStrip(_)
RStrip(s) ==
    IF Len(s) > 0 /\ s[Len(s)] = NL THEN RStrip(SubSeq(s, 1, Len(s) - 1)) ELSE s

Strip(s) == LStrip(RStrip(s))

\* the elements of a list
ToSet(seq) == { seq[k] : k \in DOMAIN seq }

(***************************************************************************)
(* Node stream.  A node has a tag name and its text.                       *)
(***************************************************************************)
HeadingTags == { <<"h", l>> : l \in 1..MaxLevel }
ContentTags == { <<"p", 0>>, <<"pre", 0>> }
Titles == { <<"A">>, <<"B">> }
Texts == { <<>>, <<"x">> }

Nodes ==
    [tag : HeadingTags, text : Titles] \cup [tag : ContentTags, text : Texts]

RECURSIVE SeqsUpTo(_, _)
SeqsUpTo(S, n) ==
    IF n = 0 THEN { <<>> }
    ELSE LET shorter == SeqsUpTo(S, n - 1)
         IN  shorter \cup { Append(s, x) : s \in { t \in shorter : Len(t) = n - 1 }, x \in S }

\* HTMLParser._get_heading_level: "h<digits>" -> the number, else 0
_get_heading_level(tag) == IF tag[1] = "h" THEN tag[2] ELSE 0

(***************************************************************************)
(* DocumentSection objects live in the heap secs; a reference is an index  *)
(* into it, NoneRef is Python's None.  The field node is the index of the  *)
(* heading node the section was created for (0 for the root).              *)
(***************************************************************************)
NoneRef == 0
Missing == -1
RootRef == 1
KeyError == -1

DocumentSection(title, level, node) ==
    [title |-> title, level |-> level, content |-> <<>>,
     subsections |-> <<>>, parent |-> NoneRef, node |-> node]

\* DocumentSection.add_subsection: self = heap[p], section = heap[c]
add_subsection(heap, p, c) ==
    [heap EXCEPT ![c].parent = p,
                 ![p].subsections = Append(@, c)]

\* DocumentSection.add_content
add_content(heap, s, block) ==
    IF Strip(block) # <<>>
    THEN [heap EXCEPT ![s].content = Append(@, Strip(block))]
    ELSE heap

\* first while-loop of the parent search: skip levels absent from the dict
RECURSIVE SkipAbsent(_, _)
SkipAbsent(cs, p) ==
    IF p > 0 /\ cs[p] = Missing THEN SkipAbsent(cs, p - 1) ELSE p

\* second while-loop: skip levels whose entry is None; subscripting a
\* level that is absent from the dict raises KeyError
RECURSIVE SkipClosed(_, _)
SkipClosed(cs, p) ==
    IF p > 0
    THEN IF cs[p] = Missing THEN KeyError
         ELSE IF cs[p] = NoneRef THEN SkipClosed(cs, p - 1)
         ELSE p
    ELSE p

\* the parent level found for a heading of the given level, or KeyError
ParentLevel(cs, level) == SkipClosed(cs, SkipAbsent(cs, level - 1))

\* the parent taken to be the section of the last heading, whatever its level
ParentRefLast(cs, level) ==
    cs[CHOOSE l \in DOMAIN cs :
           /\ cs[l] \notin {Missing, NoneRef}
           /\ \A m \in DOMAIN cs : m > l => cs[m] \in {Missing, NoneRef}]

\* the section the new heading is attached to
ParentRef(cs, level) ==
    LET parent_level == ParentLevel(cs, level)
    IN  IF parent_level >= 0 /\ cs[parent_level] \notin {Missing, NoneRef}
        THEN cs[parent_level]
        ELSE RootRef

\* the level map left as it is
ClearNothing(cs, level) == cs

\* "Clear deeper levels": every key above level is set to None
ClearDeeper(cs, level) ==
    [l \in DOMAIN cs |-> IF l > level /\ cs[l] # Missing THEN NoneRef ELSE cs[l]]

\* the lowest key whose entry is not None (the keys sorted without reverse)
ShallowestLevel(cs) ==
    CHOOSE l \in DOMAIN cs :
        /\ cs[l] \notin {Missing, NoneRef}
        /\ \A m \in DOMAIN cs : m < l => cs[m] \in {Missing, NoneRef}

\* the deepest active section: the highest key whose entry is not None
DeepestLevel(cs) ==
    CHOOSE l \in DOMAIN cs :
        /\ cs[l] \notin {Missing, NoneRef}
        /\ \A m \in DOMAIN cs : m > l => cs[m] \in {Missing, NoneRef}

\* rendered text of a non-heading node
ContentStr(node) ==
    IF node.tag[1] \in {"code", "pre"}
    THEN <<Fence, NL>> \o Strip(node.text) \o <<NL, Fence>>
    ELSE Strip(node.text)

(***************************************************************************)
(* DocumentSection.get_breadcrumbs and get_full_content.                   *)
(***************************************************************************)
RECURSIVE get_breadcrumbs(_, _)
get_breadcrumbs(heap, s) ==
    IF heap[s].parent = NoneRef THEN <<heap[s].title>>
    ELSE Append(get_breadcrumbs(heap, heap[s].parent), heap[s].title)

RECURSIVE get_full_content(_, _)
RECURSIVE SubContents(_, _)
SubContents(heap, subs) ==
    IF subs = <<>> THEN <<>>
    ELSE <<get_full_content(heap, Head(subs))>> \o SubContents(heap, Tail(subs))

\* get_full_content without the subsections' content
get_own_content(heap, s) ==
    LET heading == IF heap[s].title # <<>>
                   THEN << <<"## ">> \o heap[s].title \o <<NL>> >>
                   ELSE <<>>
        lines == heading \o << Join(heap[s].content, <<NL>>) >>
    IN  Join(lines, <<NL>>)

get_full_content(heap, s) ==
    LET heading == IF heap[s].title # <<>>
                   THEN << <<"## ">> \o heap[s].title \o <<NL>> >>
                   ELSE <<>>
        lines == heading \o << Join(heap[s].content, <<NL>>) >>
                         \o SubContents(heap, heap[s].subsections)
    IN  Join(lines, <<NL>>)

RootTitle == <<"ROOT">>

\* flatten_sections.traverse: pre-order walk, skipping the title "ROOT";
\* the field sec remembers which section an entry was made from
RECURSIVE traverse(_, _)
RECURSIVE TraverseAll(_, _)
TraverseAll(heap, subs) ==
    IF subs = <<>> THEN <<>>
    ELSE traverse(heap, Head(subs)) \o TraverseAll(heap, Tail(subs))

traverse(heap, s) ==
    LET own == IF heap[s].title # RootTitle
               THEN << [title |-> heap[s].title,
                        content |-> get_full_content(heap, s),
                        breadcrumbs |-> get_breadcrumbs(heap, s),
                        sec |-> s] >>
               ELSE <<>>
    IN  own \o TraverseAll(heap, heap[s].subsections)

flatten_sections(heap) == traverse(heap, RootRef)

(***************************************************************************)
(* The parser as a state machine.                                          *)
(***************************************************************************)
TreeIdle ==
    /\ elements = <<>>
    /\ pos = 0
    /\ secs = <<>>
    /\ current_sections = <<>>
    /\ tpc = "idle"
    /\ flat_list = <<>>

ChunkIdle ==
    /\ content = <<>>
    /\ context_window = 0
    /\ chunk_groups = <<>>
    /\ chunked_paragraphs = <<>>
    /\ cpc = "idle"

DispatchIdle ==
    /\ sections = <<>>
    /\ sec_idx = 0
    /\ processed_sections = <<>>
    /\ stack = <<>>
    /\ dpc = "idle"
    /\ returns = <<>>
    /\ last_return = [kind |-> "none"]
    /\ recursion_errors = FALSE

TreeInit ==
    /\ ChunkIdle
    /\ DispatchIdle
    /\ \E n \in 0..MaxStreamLen : elements \in [1..n -> Nodes]
    /\ pos = 0
    /\ secs = << DocumentSection(RootTitle, 0, 0) >>
    /\ current_sections = [l \in 0..MaxLevel |-> IF l = 0 THEN RootRef ELSE Missing]
    /\ tpc = "build"
    /\ flat_list = <<>>

\* loop body, heading branch, parent found
Heading ==
    /\ tpc = "build"
    /\ pos < Len(elements)
    /\ LET node == elements[pos + 1]
           level == _get_heading_level(node.tag)
           new == Len(secs) + 1
       IN  /\ level > 0
           /\ ParentLevel(current_sections, level) # KeyError
           /\ secs' = add_subsection(
                          Append(secs, DocumentSection(Strip(node.text), level, pos + 1)),
                          ParentRef(current_sections, level), new)
           /\ current_sections' =
                  ClearDeeper([current_sections EXCEPT ![level] = new], level)
    /\ pos' = pos + 1
    /\ UNCHANGED <<elements, tpc, flat_list>>
    /\ UNCHANGED <<cvars, dvars>>

\* loop body, heading branch, the parent search raises KeyError, which
\* leaves build_section_tree with the new section unattached
HeadingRaise ==
    /\ tpc = "build"
    /\ pos < Len(elements)
    /\ LET node == elements[pos + 1]
           level == _get_heading_level(node.tag)
       IN  /\ level > 0
           /\ ParentLevel(current_sections, level) = KeyError
    /\ pos' = pos + 1
    /\ tpc' = "raised"
    /\ UNCHANGED <<elements, secs, current_sections, flat_list>>
    /\ UNCHANGED <<cvars, dvars>>

\* loop body, non-heading branch
Content ==
    /\ tpc = "build"
    /\ pos < Len(elements)
    /\ LET node == elements[pos + 1]
           deepest_section == current_sections[DeepestLevel(current_sections)]
       IN  /\ _get_heading_level(node.tag) = 0
           /\ secs' = add_content(secs, deepest_section, ContentStr(node))
    /\ pos' = pos + 1
    /\ UNCHANGED <<elements, current_sections, tpc, flat_list>>
    /\ UNCHANGED <<cvars, dvars>>

\* end of the loop: build_section_tree returns root
Return ==
    /\ tpc = "build"
    /\ pos = Len(elements)
    /\ tpc' = "built"
    /\ UNCHANGED <<elements, pos, secs, current_sections, flat_list>>
    /\ UNCHANGED <<cvars, dvars>>

\* split_into_sections: flatten the tree that was built
Flatten ==
    /\ tpc = "built"
    /\ flat_list' = flatten_sections(secs)
    /\ tpc' = "flat"
    /\ UNCHANGED <<elements, pos, secs, current_sections>>
    /\ UNCHANGED <<cvars, dvars>>

TreeNext == Heading \/ HeadingRaise \/ Content \/ Return \/ Flatten

TreeSpec == TreeInit /\ [][TreeNext]_vars

(***************************************************************************)
(* The parser on streams whose heading texts may be empty or equal to the  *)
(* title given to the root.                                                *)
(***************************************************************************)
EdgeTitles == { <<"A">>, <<"ROOT">>, <<>> }

\* the content tags with the second tag that is rendered as a code block
EdgeContentTags == ContentTags \cup { <<"code", 0>> }

EdgeNodes ==
    [tag : HeadingTags, text : EdgeTitles] \cup [tag : EdgeContentTags, text : Texts]

EdgeInit ==
    /\ ChunkIdle
    /\ DispatchIdle
    /\ \E n \in 0..MaxEdgeLen : elements \in [1..n -> EdgeNodes]
    /\ pos = 0
    /\ secs = << DocumentSection(RootTitle, 0, 0) >>
    /\ current_sections = [l \in 0..MaxLevel |-> IF l = 0 THEN RootRef ELSE Missing]
    /\ tpc = "build"
    /\ flat_list = <<>>

EdgeSpec == EdgeInit /\ [][TreeNext]_vars

(***************************************************************************)
(* The chunker of GPTProcessor._process_large_section.                     *)
(***************************************************************************)
ParSep == <<NL, NL>>

\* content.split("\n\n"): left to right, separators do not overlap
RECURSIVE SplitFrom(_, _)
SplitFrom(s, cur) ==
    IF s = <<>> THEN <<cur>>
    ELSE IF Len(s) >= 2 /\ s[1] = NL /\ s[2] = NL
         THEN <<cur>> \o SplitFrom(SubSeq(s, 3, Len(s)), <<>>)
         ELSE SplitFrom(Tail(s), Append(cur, Head(s)))

SplitParagraphs(s) == SplitFrom(s, <<>>)

\* GPTProcessor._count_tokens: the tokenizer yields one token per atom
_count_tokens(text) == Len(text)

\* the accumulation loop with the whole window as the threshold
RECURSIVE AccumulateToWindow(_, _, _)
AccumulateToWindow(paragraphs, st, window) ==
    IF paragraphs = <<>> THEN st
    ELSE LET para == Head(paragraphs)
             p_tokens == _count_tokens(para)
         IN  IF st.current_tokens + p_tokens > window
             THEN AccumulateToWindow(Tail(paragraphs),
                      [chunks |-> Append(st.chunks, st.current_chunk),
                       current_chunk |-> <<para>>,
                       current_tokens |-> p_tokens], window)
             ELSE AccumulateToWindow(Tail(paragraphs),
                      [chunks |-> st.chunks,
                       current_chunk |-> Append(st.current_chunk, para),
                       current_tokens |-> st.current_tokens + p_tokens], window)

\* the accumulation loop; st holds chunks (the paragraph lists appended so
\* far), current_chunk and current_tokens
RECURSIVE Accumulate(_, _, _)
Accumulate(paragraphs, st, window) ==
    IF paragraphs = <<>> THEN st
    ELSE LET para == Head(paragraphs)
             p_tokens == _count_tokens(para)
         IN  IF st.current_tokens + p_tokens > window \div 2
             THEN Accumulate(Tail(paragraphs),
                      [chunks |-> Append(st.chunks, st.current_chunk),
                       current_chunk |-> <<para>>,
                       current_tokens |-> p_tokens], window)
             ELSE Accumulate(Tail(paragraphs),
                      [chunks |-> st.chunks,
                       current_chunk |-> Append(st.current_chunk, para),
                       current_tokens |-> st.current_tokens + p_tokens], window)

\* the paragraph lists of the chunks, the trailing current_chunk included
\* when it is not empty
ChunkGroups(text, window) ==
    LET st == Accumulate(SplitParagraphs(text),
                  [chunks |-> <<>>, current_chunk |-> <<>>, current_tokens |-> 0],
                  window)
    IN  IF st.current_chunk # <<>> THEN Append(st.chunks, st.current_chunk)
        ELSE st.chunks

\* chunked_paragraphs: each paragraph list joined by the separator
ChunkTexts(groups) == [i \in DOMAIN groups |-> Join(groups[i], ParSep)]

Alphabet == {"a", NL}

ChunkInit ==
    /\ TreeIdle
    /\ DispatchIdle
    /\ content \in SeqsUpTo(Alphabet, MaxContentLen)
    /\ context_window \in 2..MaxWindow
    /\ chunk_groups = <<>>
    /\ chunked_paragraphs = <<>>
    /\ cpc = "start"

\* lines 361-381 of _process_large_section
Chunk ==
    /\ cpc = "start"
    /\ chunk_groups' = ChunkGroups(content, context_window)
    /\ chunked_paragraphs' = ChunkTexts(ChunkGroups(content, context_window))
    /\ cpc' = "done"
    /\ UNCHANGED <<content, context_window>>
    /\ UNCHANGED <<tvars, dvars>>

ChunkNext == Chunk

ChunkSpec == ChunkInit /\ [][ChunkNext]_vars

\* C4: joining the chunks in order with the paragraph separator gives back
\* the original content.
C4_ChunksCoverContent ==
    cpc = "done" => Join(chunked_paragraphs, ParSep) = content

\* C5: no chunk is empty: every chunk holds at least one paragraph of the
\* content.
C5_NoEmptyChunk ==
    cpc = "done" => \A i \in DOMAIN chunk_groups : Len(chunk_groups[i]) >= 1

\* the sum of the token counts of the paragraphs of a chunk
RECURSIVE SumTokens(_)
SumTokens(paragraphs) ==
    IF paragraphs = <<>> THEN 0
    ELSE _count_tokens(Head(paragraphs)) + SumTokens(Tail(paragraphs))

\* C16: the paragraph token counts of a chunk of two or more paragraphs
\* sum to at most half of the context window; a chunk that exceeds half of
\* the window consists of a single paragraph.
C16_ChunksWithinHalfWindow ==
    cpc = "done" =>
        \A i \in DOMAIN chunk_groups :
            /\ Len(chunk_groups[i]) >= 2 =>
                   SumTokens(chunk_groups[i]) <= context_window \div 2
            /\ SumTokens(chunk_groups[i]) > context_window \div 2 =>
                   Len(chunk_groups[i]) = 1

\* a chunk of two non-empty paragraphs that fills half of the window
\* exactly
C16_Witness ==
    /\ cpc = "done"
    /\ \E i \in DOMAIN chunk_groups :
           /\ Len(chunk_groups[i]) = 2
           /\ chunk_groups[i][1] # <<>>
           /\ chunk_groups[i][2] # <<>>
           /\ SumTokens(chunk_groups[i]) = context_window \div 2

(***************************************************************************)
(* Classification dispatch: GPTProcessor.process_section, _call_gpt, the   *)
(* second half of _process_large_section and the loop of process_file.     *)
(* An Optional[Dict] is a sequence: <<>> is None, <<r>> is the record r.   *)
(***************************************************************************)
None == <<>>

\* GPTProcessor._create_prompt: the template around title and content
_create_prompt(section) ==
    <<"Analyze Title:">> \o section.title \o <<"Content:">> \o section.content
        \o <<"Format">>

\* the test of process_section that sends a section to the chunker
Oversize(section, window) == _count_tokens(_create_prompt(section)) > window

\* what the gateway can do with one call
GatewayKinds == {"record", "refusal", "empty", "unparsed", "exception"}

GatewayRecords ==
    { [section_type |-> "endpoint", related_endpoints |-> <<"A", "B">>,
       filename |-> "f1.md", content |-> <<"x">>],
      [section_type |-> "concept", related_endpoints |-> <<"B", "C">>,
       filename |-> "f2.md", content |-> <<"y">>] }

\* GPTProcessor._call_gpt: every outcome but a parsed record gives None
_call_gpt(kind, record) ==
    CASE kind = "exception" -> None
      [] kind = "empty"     -> None
      [] kind = "refusal"   -> None
      [] kind = "unparsed"  -> None
      [] kind = "record"    -> <<record>>

\* title and breadcrumbs of the chunk with ordinal n
PartSuffix(n) == " (Part " \o ToString(n) \o ")"
PartCrumb(n) == "Part " \o ToString(n)

\* a new activation of _process_large_section, chunks computed; outcomes
\* remembers what process_section returned for each chunk so far
NewFrame(section, window) ==
    [section |-> section,
     chunks |-> ChunkTexts(ChunkGroups(section.content, window)),
     i |-> 0,
     processed_chunks |-> <<>>,
     outcomes |-> <<>>]

\* sub_section built for the next chunk of an activation
SubSection(frame) ==
    [title |-> Append(frame.section.title, PartSuffix(frame.i + 1)),
     content |-> frame.chunks[frame.i + 1],
     breadcrumbs |-> Append(frame.section.breadcrumbs, PartCrumb(frame.i + 1))]

\* Combine with the parts put in front of the combined content
RECURSIVE CombinePrepending(_, _)
CombinePrepending(combined, parts) ==
    IF parts = <<>> THEN combined
    ELSE CombinePrepending([combined EXCEPT
                     !.content = Head(parts).content \o ParSep \o @,
                     !.related_endpoints = @ \o Head(parts).related_endpoints],
                 Tail(parts))

\* "Combine partial results": the first record absorbs the others
RECURSIVE Combine(_, _)
Combine(combined, parts) ==
    IF parts = <<>> THEN combined
    ELSE Combine([combined EXCEPT
                     !.content = @ \o ParSep \o Head(parts).content,
                     !.related_endpoints = @ \o Head(parts).related_endpoints],
                 Tail(parts))

\* the value _process_large_section returns once every chunk is processed
MergeResult(processed_chunks) ==
    IF processed_chunks = <<>> THEN None
    ELSE <<Combine(Head(processed_chunks), Tail(processed_chunks))>>

\* "except Exception" of process_section, entered with a RecursionError in
\* a call that has depth activations of _process_large_section below it.
\* The handler logs and returns None; in a nested call the logging may
\* itself run out of stack frames and re-raise.  The call made by
\* process_file has the whole stack available.
except_Exception(depth) ==
    IF depth = 0 THEN {"caught"} ELSE {"caught", "reraised"}

\* the section the next call of process_section is made for
CallPending ==
    IF stack = <<>> THEN sec_idx < Len(sections)
    ELSE stack[Len(stack)].i < Len(stack[Len(stack)].chunks)

CallSection ==
    IF stack = <<>> THEN sections[sec_idx + 1]
    ELSE SubSection(stack[Len(stack)])

\* process_section returns result to its caller: the activation on top of
\* st, or process_file when st is empty
Deliver(result, st) ==
    IF st = <<>>
    THEN /\ stack' = <<>>
         /\ processed_sections' = processed_sections \o result
         /\ sec_idx' = sec_idx + 1
         /\ returns' = Append(returns, result)
    ELSE /\ stack' = [st EXCEPT ![Len(st)] =
                        [@ EXCEPT !.i = @ + 1,
                                  !.processed_chunks = @ \o result,
                                  !.outcomes = Append(@, result)]]
         /\ UNCHANGED <<processed_sections, sec_idx, returns>>

Paragraph(n) == [k \in 1..n |-> "a"]
ContentOf(ls) == Join([k \in DOMAIN ls |-> Paragraph(ls[k])], ParSep)
FlatSection(text) ==
    [title |-> <<"T">>, content |-> text, breadcrumbs |-> <<"ROOT", "T">>]

\* contents of a single dispatched section: up to MaxParas paragraphs that
\* are empty, small, or larger than half of the window
ParaSizes == {0, 2, 4}
Contents == { ContentOf(ls) : ls \in SeqsUpTo(ParaSizes, MaxParas) \ { <<>> } }

\* contents of the sections of a file: one that fits the window, one that
\* is chunked into two parts, one that is a single oversized paragraph
FileContents == { ContentOf(<<2>>), ContentOf(<<2, 2>>), ContentOf(<<4>>) }

DispatchStart ==
    /\ TreeIdle
    /\ content = <<>>
    /\ chunk_groups = <<>>
    /\ chunked_paragraphs = <<>>
    /\ cpc = "idle"
    /\ context_window \in (MaxWindow - 1)..MaxWindow
    /\ sec_idx = 0
    /\ processed_sections = <<>>
    /\ stack = <<>>
    /\ dpc = "file"
    /\ returns = <<>>
    /\ last_return = [kind |-> "none"]
    /\ recursion_errors = FALSE

\* process_file with the list split_into_sections returned
DispatchInit ==
    /\ DispatchStart
    /\ sections \in SeqsUpTo({ FlatSection(text) : text \in FileContents }, MaxSections)

\* the dispatch of one section
SectionInit ==
    /\ DispatchStart
    /\ sections \in { <<FlatSection(text)>> : text \in Contents }

\* process_section, else-branch: one call of the gateway
Classify ==
    /\ dpc = "file"
    /\ CallPending
    /\ ~Oversize(CallSection, context_window)
    /\ \E kind \in GatewayKinds, record \in GatewayRecords :
           Deliver(_call_gpt(kind, record), stack)
    /\ UNCHANGED <<sections, dpc, last_return, recursion_errors>>
    /\ UNCHANGED <<tvars, cvars>>

\* process_section, if-branch: _process_large_section starts and chunks
Split ==
    /\ dpc = "file"
    /\ CallPending
    /\ Oversize(CallSection, context_window)
    /\ Len(stack) < RecursionLimit
    /\ stack' = Append(stack, NewFrame(CallSection, context_window))
    /\ UNCHANGED <<sections, sec_idx, processed_sections, dpc, returns,
                   last_return, recursion_errors>>
    /\ UNCHANGED <<tvars, cvars>>

\* process_section, if-branch, with the interpreter stack exhausted: the
\* call of _process_large_section raises RecursionError.  The error leaves
\* the innermost "unwound" activations through handlers that re-raise, then
\* a handler catches it and its process_section returns None.
Overflow ==
    /\ dpc = "file"
    /\ CallPending
    /\ Oversize(CallSection, context_window)
    /\ Len(stack) = RecursionLimit
    /\ recursion_errors' = TRUE
    /\ \E unwound \in 0..(Len(stack) + 1) :
           /\ \A j \in 0..(unwound - 1) :
                  "reraised" \in except_Exception(Len(stack) - j)
           /\ IF unwound = Len(stack) + 1
              THEN /\ dpc' = "escaped"
                   /\ stack' = <<>>
                   /\ UNCHANGED <<processed_sections, sec_idx, returns, last_return>>
              ELSE /\ "caught" \in except_Exception(Len(stack) - unwound)
                   /\ Deliver(None, SubSeq(stack, 1, Len(stack) - unwound))
                   /\ last_return' =
                          IF unwound = 0 THEN last_return
                          ELSE [kind |-> "raised",
                                outcomes |-> stack[Len(stack) - unwound + 1].outcomes,
                                result |-> None]
                   /\ UNCHANGED dpc
    /\ UNCHANGED sections
    /\ UNCHANGED <<tvars, cvars>>

\* _process_large_section after its last chunk: bail or combine, return
Reassemble ==
    /\ dpc = "file"
    /\ stack # <<>>
    /\ ~CallPending
    /\ LET frame == stack[Len(stack)]
           result == MergeResult(frame.processed_chunks)
       IN  /\ Deliver(result, SubSeq(stack, 1, Len(stack) - 1))
           /\ last_return' = [kind |-> "merged",
                              outcomes |-> frame.outcomes,
                              result |-> result]
    /\ UNCHANGED <<sections, dpc, recursion_errors>>
    /\ UNCHANGED <<tvars, cvars>>

\* process_file after the loop: the records go to generate_files
Finish ==
    /\ dpc = "file"
    /\ stack = <<>>
    /\ ~CallPending
    /\ dpc' = "done"
    /\ UNCHANGED <<sections, sec_idx, processed_sections, stack, returns,
                   last_return, recursion_errors>>
    /\ UNCHANGED <<tvars, cvars>>

DispatchNext == Classify \/ Split \/ Overflow \/ Reassemble \/ Finish

DispatchSpec == DispatchInit /\ [][DispatchNext]_vars

SectionSpec == SectionInit /\ [][DispatchNext]_vars

(***************************************************************************)
(* Properties of the tree builder and the flattener.                       *)
(***************************************************************************)
IsHeading(n) == _get_heading_level(elements[n].tag) > 0
LevelOf(n) == _get_heading_level(elements[n].tag)

\* the heading nodes before node n whose sections are still open when n
\* arrives and lie strictly above it: no heading between them and n has an
\* equal or smaller level than theirs
OpenAbove(n) ==
    { j \in 1..(n - 1) :
        /\ IsHeading(j)
        /\ LevelOf(j) < LevelOf(n)
        /\ \A k \in (j + 1)..(n - 1) : IsHeading(k) => LevelOf(k) > LevelOf(j) }

Max(S) == CHOOSE x \in S : \A y \in S : y <= x

\* the node of the section that must become the parent of heading n
\* (0 stands for the root)
ExpectedParentNode(n) == IF OpenAbove(n) = {} THEN 0 ELSE Max(OpenAbove(n))

\* C1: every heading node the builder has taken up has a section, and that
\* section is a subsection of the nearest preceding still-open section of
\* strictly smaller level (the root when there is none).
C1_ParentIsNearestOpen ==
    \A n \in 1..pos :
        IsHeading(n) =>
            \E s \in 2..Len(secs) :
                /\ secs[s].node = n
                /\ secs[s].parent # NoneRef
                /\ secs[secs[s].parent].node = ExpectedParentNode(n)
                /\ \E i \in DOMAIN secs[secs[s].parent].subsections :
                       secs[secs[s].parent].subsections[i] = s

\* C2: build_section_tree never raises, whatever the heading levels are.
C2_BuilderNeverFails == tpc # "raised"

\* titles on the path from the root's child down to s, the root excluded
RECURSIVE PathTitles(_, _)
PathTitles(heap, s) ==
    IF s = RootRef THEN <<>>
    ELSE Append(PathTitles(heap, heap[s].parent), heap[s].title)

\* C3: the breadcrumbs of every flattened section are the titles of its
\* ancestors from the root's child down to itself and never contain the
\* title of the synthetic root.
C3_BreadcrumbsExcludeRoot ==
    tpc = "flat" =>
        \A i \in DOMAIN flat_list :
            /\ flat_list[i].breadcrumbs = PathTitles(secs, flat_list[i].sec)
            /\ \A b \in DOMAIN flat_list[i].breadcrumbs :
                   flat_list[i].breadcrumbs[b] # RootTitle

\* the flat entry made from section s exists
HasEntry(s) == \E i \in DOMAIN flat_list : flat_list[i].sec = s

\* C11: a heading section without content blocks has no entry in the list
\* split_into_sections returns, and a heading section with at least one
\* content block has one.
C11_EmptySectionsExcluded ==
    tpc = "flat" =>
        \A s \in 2..Len(secs) : HasEntry(s) <=> secs[s].content # <<>>

\* the titles of the heading nodes of a stream, in stream order
RECURSIVE HeadingTitles(_)
HeadingTitles(stream) ==
    IF stream = <<>> THEN <<>>
    ELSE IF _get_heading_level(Head(stream).tag) > 0
         THEN <<Strip(Head(stream).text)>> \o HeadingTitles(Tail(stream))
         ELSE HeadingTitles(Tail(stream))

\* C12: the titles of the flattened list are the titles of the heading
\* nodes of the stream, one entry per heading, in stream order; a stream
\* without headings flattens to the empty list.
C12_FlattenInDocumentOrder ==
    tpc = "flat" =>
        [i \in DOMAIN flat_list |-> flat_list[i].title] = HeadingTitles(elements)

\* the content blocks made from the nodes k, k+1, ... up to the next heading
RECURSIVE BlocksFrom(_)
BlocksFrom(k) ==
    IF k > Len(elements) \/ IsHeading(k) THEN <<>>
    ELSE LET block == Strip(ContentStr(elements[k]))
         IN  (IF block # <<>> THEN <<block>> ELSE <<>>) \o BlocksFrom(k + 1)

\* heading line and content blocks of heading node n, as they are rendered
OwnPart(n) ==
    LET title == Strip(elements[n].text)
    IN  (IF title # <<>> THEN <<"## ">> \o title \o <<NL, NL>> ELSE <<>>)
            \o Join(BlocksFrom(n + 1), <<NL>>)

\* the last node under heading n: the node before the next heading of an
\* equal or smaller level
RECURSIVE SubtreeEnd(_, _)
SubtreeEnd(n, k) ==
    IF k + 1 > Len(elements) THEN k
    ELSE IF IsHeading(k + 1) /\ LevelOf(k + 1) <= LevelOf(n) THEN k
    ELSE SubtreeEnd(n, k + 1)

\* the heading nodes among a..b, in stream order
RECURSIVE HeadingsIn(_, _)
HeadingsIn(a, b) ==
    IF a > b THEN <<>>
    ELSE (IF IsHeading(a) THEN <<a>> ELSE <<>>) \o HeadingsIn(a + 1, b)

\* what the flat entry of heading n has to contain: n and every heading
\* under it with their blocks, in document order
ExpectedContent(n) ==
    LET hs == HeadingsIn(n, SubtreeEnd(n, n))
    IN  Join([k \in DOMAIN hs |-> OwnPart(hs[k])], <<NL>>)

\* the heading nodes of s and of its descendants in the tree
RECURSIVE SubtreeNodes(_, _)
SubtreeNodes(heap, s) ==
    {heap[s].node} \cup
        UNION { SubtreeNodes(heap, heap[s].subsections[i]) :
                    i \in DOMAIN heap[s].subsections }

\* C13: the rendered content of the flat entry of a section S is the
\* heading and content blocks of S followed by the headings and content
\* blocks of every descendant of S in document order, and nothing of any
\* section outside the subtree of S.
C13_ContentIsSubtree ==
    tpc = "flat" =>
        \A i \in DOMAIN flat_list :
            LET s == flat_list[i].sec
                n == secs[s].node
            IN  /\ SubtreeNodes(secs, s) = ToSet(HeadingsIn(n, SubtreeEnd(n, n)))
                /\ flat_list[i].content = ExpectedContent(n)

\* a section with two subsections, the first of which has content of its
\* own: the entry of the first subsection is not the entry of the section
C13_Witness ==
    /\ tpc = "flat"
    /\ \E i, j, k \in DOMAIN flat_list :
           /\ i < j /\ j < k
           /\ secs[flat_list[j].sec].parent = flat_list[i].sec
           /\ secs[flat_list[k].sec].parent = flat_list[i].sec
           /\ secs[flat_list[j].sec].content # <<>>
           /\ flat_list[i].content # flat_list[j].content
           /\ flat_list[j].content = get_own_content(secs, flat_list[j].sec)

\* the last heading node among the first k nodes (0 when there is none)
RECURSIVE LastHeading(_)
LastHeading(k) ==
    IF k = 0 THEN 0 ELSE IF IsHeading(k) THEN k ELSE LastHeading(k - 1)

\* the section made for heading node n (the root for 0)
SectionOf(heap, n) == CHOOSE s \in DOMAIN heap : heap[s].node = n

\* the open levels of the level map
OpenLevels(cs) == { l \in DOMAIN cs : cs[l] \notin {Missing, NoneRef} }

\* C14: a step of the loop on a non-heading node with non-empty text
\* appends one content block to the section of the most recently seen
\* heading (the root when no heading was seen), which is the deepest open
\* section, and changes no other section.
C14_ContentToDeepestOpen ==
    [][ (/\ tpc = "build"
         /\ pos < Len(elements)
         /\ ~IsHeading(pos + 1)
         /\ Strip(elements[pos + 1].text) # <<>>)
        => LET target == SectionOf(secs, LastHeading(pos))
           IN  /\ target = current_sections[Max(OpenLevels(current_sections))]
               /\ pos' = pos + 1
               /\ secs' = [secs EXCEPT ![target].content =
                                Append(@, ContentStr(elements[pos + 1]))] ]_vars

\* a content node was appended to the section of the last heading after a
\* deeper section, made for an earlier heading, had been closed
C14_Witness ==
    /\ tpc = "build"
    /\ pos >= 2
    /\ ~IsHeading(pos)
    /\ Strip(elements[pos].text) # <<>>
    /\ LastHeading(pos) > 0
    /\ LET s == SectionOf(secs, LastHeading(pos))
       IN  /\ secs[s].content = <<ContentStr(elements[pos])>>
           /\ \E t \in 2..Len(secs) :
                  /\ secs[t].level > secs[s].level
                  /\ secs[t].node < secs[s].node
                  /\ secs[t].content = <<>>

\* the places <<p, i>> at which section s occurs in a subsections list
Occurrences(heap, s) ==
    UNION { { <<p, i>> : i \in { j \in DOMAIN heap[p].subsections :
                                    heap[p].subsections[j] = s } } :
            p \in DOMAIN heap }

\* C15: after every step of the builder the root has level 0 and no
\* parent, every other section has a parent of a strictly smaller level,
\* and occurs exactly once in exactly one subsections list, that of its
\* parent.
C15_SectionsFormTree ==
    /\ secs[RootRef].level = 0
    /\ secs[RootRef].parent = NoneRef
    /\ Occurrences(secs, RootRef) = {}
    /\ \A s \in 2..Len(secs) :
           /\ secs[s].parent # NoneRef
           /\ secs[s].level > secs[secs[s].parent].level
           /\ LET places == Occurrences(secs, s)
              IN  /\ Cardinality(places) = 1
                  /\ \A pi \in places : pi[1] = secs[s].parent

\* a tree with a section that has two subsections, one of them more than
\* one level below it, built after a deeper section was closed
C15_Witness ==
    /\ tpc = "build"
    /\ pos = Len(elements)
    /\ \E p \in 2..Len(secs) :
           /\ Len(secs[p].subsections) = 2
           /\ secs[secs[p].subsections[1]].level > secs[p].level + 1
           /\ secs[secs[p].subsections[2]].level < secs[secs[p].subsections[1]].level

\* the next level below level l in a set of open levels (l itself must not
\* be the lowest)
OpenBelow(open, l) == Max({ m \in open : m < l })

\* C17: while the builder runs, the open entries of the level map form one
\* parent chain that starts at the root: the open section of each level is
\* a subsection of the open section of the next lower open level; after a
\* heading was processed no level above the level of that heading is open
\* and the deepest open section is the section of that heading.
C17_OpenLevelsFormChain ==
    tpc \in {"build", "built", "flat"} =>
        LET open == OpenLevels(current_sections)
            last == LastHeading(pos)
        IN  /\ current_sections[0] = RootRef
            /\ \A l \in open \ {0} :
                   /\ secs[current_sections[l]].level = l
                   /\ secs[current_sections[l]].parent =
                          current_sections[OpenBelow(open, l)]
            /\ last > 0 =>
                   /\ Max(open) = LevelOf(last)
                   /\ current_sections[LevelOf(last)] = SectionOf(secs, last)

\* a heading was just processed that closed a deeper level and whose
\* chain skips a level that never had a section
C17_Witness ==
    /\ tpc = "build"
    /\ pos >= 1
    /\ IsHeading(pos)
    /\ Cardinality(OpenLevels(current_sections)) = 3
    /\ \E l \in DOMAIN current_sections :
           l > LevelOf(pos) /\ current_sections[l] = NoneRef
    /\ \E l \in DOMAIN current_sections :
           l < LevelOf(pos) /\ current_sections[l] = Missing

(***************************************************************************)
(* Properties of the dispatch and of the reassembly.                       *)
(***************************************************************************)
IsRecord(result) == result # None

\* the records of the chunks that were classified, in chunk order
Successes(outcomes) == SelectSeq(outcomes, IsRecord)

NoDuplicates(seq) == \A a, b \in DOMAIN seq : a # b => seq[a] # seq[b]

\* C6: re-chunking ends by itself: no dispatch recurses until the
\* interpreter stack is exhausted (RecursionError).
C6_RechunkTerminates == recursion_errors = FALSE

\* C7: the related_endpoints of a merged record are the set union of the
\* chunk records' related_endpoints and hold no entry twice.
C7_EndpointsAreUnion ==
    (last_return.kind = "merged" /\ last_return.result # None) =>
        LET merged == last_return.result[1].related_endpoints
            parts == Successes(last_return.outcomes)
        IN  /\ NoDuplicates(merged)
            /\ ToSet(merged) =
                   UNION { ToSet(parts[k][1].related_endpoints) : k \in DOMAIN parts }

\* C8: when some chunks fail and at least one succeeds, the content of the
\* merged record is the contents of exactly the successful chunk records,
\* in chunk order, separated by a blank line, and its section_type and
\* filename are those of the first successful chunk record.
C8_MergeKeepsSuccessesInOrder ==
    (last_return.kind = "merged" /\ Successes(last_return.outcomes) # <<>>) =>
        LET parts == Successes(last_return.outcomes)
        IN  /\ last_return.result # None
            /\ last_return.result[1].content =
                   Join([k \in DOMAIN parts |-> parts[k][1].content], ParSep)
            /\ last_return.result[1].section_type = parts[1][1].section_type
            /\ last_return.result[1].filename = parts[1][1].filename

\* a merge of three chunks whose second failed while the first and the
\* third gave different records
C8_Witness ==
    /\ last_return.kind = "merged"
    /\ Len(last_return.outcomes) = 3
    /\ last_return.outcomes[1] # None
    /\ last_return.outcomes[2] = None
    /\ last_return.outcomes[3] # None
    /\ last_return.outcomes[1] # last_return.outcomes[3]
    /\ last_return.result # None

\* C9: a chunked section is dropped if and only if none of its chunks was
\* classified successfully.
C9_DroppedIffNoSuccess ==
    last_return.kind # "none" =>
        (last_return.result = None <=> Successes(last_return.outcomes) = <<>>)

\* the records among the values process_section returned, in order
RECURSIVE Collected(_)
Collected(rets) ==
    IF rets = <<>> THEN <<>> ELSE Head(rets) \o Collected(Tail(rets))

\* C10: no call of process_section lets an exception escape, neither the
\* call process_file makes for a section nor the call made for a chunk;
\* every section of the list is dispatched in document order whatever
\* happened to the earlier ones, and the records collected are the
\* successful ones in document order.
C10_DispatchNeverAborts ==
    /\ dpc # "escaped"
    /\ last_return.kind # "raised"
    /\ Len(returns) = sec_idx
    /\ processed_sections = Collected(returns)
    /\ dpc = "done" => sec_idx = Len(sections)

====
